---- MODULE Spec2Model ----
(***************************************************************************)
(* Relational normalization library: dependency parsing (components.py),   *)
(* the Relvar container (components.py) and the closure / key / normal     *)
(* form algorithms (algorithms.py).                                        *)
(*                                                                         *)
(* A Python str is a sequence of one-character strings.  A Python object   *)
(* without __eq__/__hash__ (Dependency) is a record carrying an id field,  *)
(* a frozen dataclass (Attribute) is a record compared by its fields.      *)
(***************************************************************************)
EXTENDS Integers, Sequences, FiniteSets, TLC

VARIABLES
    expression,               \* argument handed to a Dependency constructor
    dependency,               \* object the constructor produced (or None)
    relvar,                   \* the Relvar object (or None before construction)
    raised,                   \* exception raised by the last call ("none" if it returned)
    call,                     \* the last call made: its name, its argument, the value it returned
    attributes,               \* closure / is_superkey / is_key argument
    heading,                  \* is_superkey / is_key argument
    functional_dependencies,  \* closure / is_superkey / is_key argument
    closure_set,              \* closure: local closure_set
    changed,                  \* closure: local changed
    todo,                     \* closure: dependencies the for loop has not visited yet
    pc,                       \* closure: position in the function body
    passes,                   \* closure: number of for loops started
    pass_start,               \* closure: value of closure_set when the current for loop started
    first                     \* argument and returned value of the first of two chained closure calls

vars == <<expression, dependency, relvar, raised, call, attributes, heading,
          functional_dependencies, closure_set, changed, todo, pc, passes,
          pass_start, first>>

None == [type |-> "NoneType"]

----------------------------------------------------------------------------
(* Bounds *)

MaxCopies == 2      \* objects constructed from one and the same expression
MaxDet == 1         \* attributes in the determinant of a dependency offered to a relvar
MaxDep == 2         \* attributes in the dependant of a dependency offered to a relvar
MaxDeps == 2        \* dependencies attached to one relvar
MaxArgDet == 1      \* attributes in a determinant handed to closure / is_superkey / is_key
MaxArgDep == 1      \* attributes in a dependant handed to closure / is_superkey / is_key
MaxFDs == 2         \* dependencies handed to closure / is_superkey / is_key
MaxIds == 2         \* identifiers on one side of a generated expression

----------------------------------------------------------------------------
(* Characters and str methods *)

\* ord(c) for the characters used in the inputs
Ord == ("\t" :> 9) @@ (" " :> 32) @@ ("," :> 44) @@ ("-" :> 45) @@ ("1" :> 49) @@
       (">" :> 62) @@ ("A" :> 65) @@ ("B" :> 66) @@ ("C" :> 67) @@ ("Z" :> 90) @@
       ("[" :> 91) @@ ("^" :> 94) @@ ("_" :> 95) @@ ("a" :> 97) @@
       ("z" :> 122) @@ ("{" :> 123) @@ ("}" :> 125)

\* str.replace(old, "") for a one-character old
str_replace(s, old) == SelectSeq(s, LAMBDA c : c # old)

\* s.startswith(sep, i-1): sep occurs in s at (1-based) position i
OccursAt(s, sep, i) ==
    /\ i + Len(sep) - 1 <= Len(s)
    /\ SubSeq(s, i, i + Len(sep) - 1) = sep

RECURSIVE str_split(_, _)
\* str.split(sep): the list of the pieces between the occurrences of sep
str_split(s, sep) ==
    IF \E i \in 1..Len(s) : OccursAt(s, sep, i)
    THEN LET i == CHOOSE k \in 1..Len(s) :
                      /\ OccursAt(s, sep, k)
                      /\ \A j \in 1..(k - 1) : ~OccursAt(s, sep, j)
         IN <<SubSeq(s, 1, i - 1)>> \o str_split(SubSeq(s, i + Len(sep), Len(s)), sep)
    ELSE <<s>>

\* str.strip(chars): drop the leading and trailing characters that are in chars
str_strip(s, chars) ==
    LET keep == {i \in 1..Len(s) : s[i] \notin chars}
    IN IF keep = {} THEN <<>>
       ELSE LET lo == CHOOSE i \in keep : \A j \in keep : i <= j
                hi == CHOOSE i \in keep : \A j \in keep : j <= i
            IN SubSeq(s, lo, hi)

----------------------------------------------------------------------------
(* components.py: Attribute, Dependency and its two subclasses *)

Attribute(name) == [name |-> name]

FunctionalDependency == "FunctionalDependency"
MultivaluedDependency == "MultivaluedDependency"

_SEPARATOR(cls) ==
    IF cls = FunctionalDependency THEN <<"-", ">">> ELSE <<"-", ">", "-", ">">>

\* the character class [A-z]: every code point from ord("A") to ord("z")
InCharClass(c) == Ord[c] >= Ord["A"] /\ Ord[c] <= Ord["z"]

\* fullmatch of [A-z]+(?:,[A-z]+)*
MatchIdList(u) ==
    /\ Len(u) >= 1
    /\ \A i \in 1..Len(u) : InCharClass(u[i]) \/ u[i] = ","
    /\ u[1] # ","
    /\ u[Len(u)] # ","
    /\ \A i \in 1..(Len(u) - 1) : ~(u[i] = "," /\ u[i + 1] = ",")

\* fullmatch of \{[A-z]+(?:,[A-z]+)*\}
MatchSide(t) ==
    /\ Len(t) >= 3
    /\ t[1] = "{"
    /\ t[Len(t)] = "}"
    /\ MatchIdList(SubSeq(t, 2, Len(t) - 1))

\* re.fullmatch(cls._CAPTURE_EXPRESSION, s)
_CAPTURE_EXPRESSION(cls, s) ==
    \E i \in 1..Len(s) :
        /\ MatchSide(SubSeq(s, 1, i))
        /\ OccursAt(s, _SEPARATOR(cls), i + 1)
        /\ MatchSide(SubSeq(s, i + Len(_SEPARATOR(cls)) + 1, Len(s)))

_is_expression_valid(cls, s) ==
    LET clean_expression == str_replace(s, " ")
    IN _CAPTURE_EXPRESSION(cls, clean_expression)

_get_set_from_expression(s) ==
    LET names == str_split(str_strip(str_replace(s, " "), {"{", "}"}), <<",">>)
    IN {Attribute(names[i]) : i \in 1..Len(names)}

\* Dependency.__init__ for the subclass cls; id tells apart the objects that
\* separate constructor calls produce.  The outcome is the raised exception
\* or the constructed object.
Dependency__init__(cls, expr, id) ==
    IF expr.type # "str"
    THEN [raised |-> "InvalidExpression", object |-> None]
    ELSE LET clean == str_replace(expr.value, " ")
         IN IF ~_is_expression_valid(cls, clean)
            THEN [raised |-> "InvalidExpression", object |-> None]
            ELSE LET parts == str_split(clean, _SEPARATOR(cls))
                 IN [raised |-> "none",
                     object |-> [type |-> cls,
                                 id |-> id,
                                 determinant |-> _get_set_from_expression(parts[1]),
                                 dependant |-> _get_set_from_expression(parts[2])]]

\* variant: the subset test is reversed
FunctionalDependency_is_trivial_Reversed(self) == self.determinant \subseteq self.dependant

\* FunctionalDependency.is_trivial
FunctionalDependency_is_trivial(self) == self.dependant \subseteq self.determinant

\* variant: the test against the heading is missing
MultivaluedDependency_is_trivial_SubsetOnly(self, h) == self.dependant \subseteq self.determinant

\* MultivaluedDependency.is_trivial
MultivaluedDependency_is_trivial(self, h) ==
    \/ self.dependant \subseteq self.determinant
    \/ (self.determinant \cup self.dependant) = h

----------------------------------------------------------------------------
(* components.py: Relvar *)

\* variant: only the determinant is looked at
Relvar_validate_dependency_DeterminantOnly(self, d) ==
    IF \E attribute \in d.determinant : attribute \notin self.heading
    THEN "InvalidDependency"
    ELSE "none"

\* Relvar._validate_dependency: the exception it raises, "none" if it returns
Relvar_validate_dependency(self, d) ==
    IF \E attribute \in d.determinant \cup d.dependant : attribute \notin self.heading
    THEN "InvalidDependency"
    ELSE "none"

\* variant: the dependency is stored before it is validated
Relvar_add_functional_dependency_StoreFirst(self, fd) ==
    [raised |-> Relvar_validate_dependency(self, fd),
     self |-> [self EXCEPT !.functional_dependencies = @ \cup {fd}]]

\* Relvar.add_functional_dependency: the exception raised and self afterwards
Relvar_add_functional_dependency(self, fd) ==
    IF Relvar_validate_dependency(self, fd) # "none"
    THEN [raised |-> Relvar_validate_dependency(self, fd), self |-> self]
    ELSE [raised |-> "none",
          self |-> [self EXCEPT !.functional_dependencies = @ \cup {fd}]]

\* Relvar.add_multivalued_dependency: the exception raised and self afterwards
Relvar_add_multivalued_dependency(self, mvd) ==
    IF Relvar_validate_dependency(self, mvd) # "none"
    THEN [raised |-> Relvar_validate_dependency(self, mvd), self |-> self]
    ELSE [raised |-> "none",
          self |-> [self EXCEPT !.multivalued_dependencies = @ \cup {mvd}]]

RECURSIVE Relvar_add_each(_, _, _)
\* the two for loops of Relvar.__init__: add the dependencies of the list in
\* order, stopping at the first add that raises
Relvar_add_each(self, list, cls) ==
    IF Len(list) = 0 THEN [raised |-> "none", self |-> self]
    ELSE LET r == IF cls = FunctionalDependency
                  THEN Relvar_add_functional_dependency(self, Head(list))
                  ELSE Relvar_add_multivalued_dependency(self, Head(list))
         IN IF r.raised # "none" THEN r ELSE Relvar_add_each(r.self, Tail(list), cls)

\* Relvar.__init__(heading, functional_dependencies, multivalued_dependencies)
Relvar__init__(h, fds, mvds) ==
    LET self == [type |-> "Relvar",
                 heading |-> {Attribute(h[i]) : i \in 1..Len(h)},
                 functional_dependencies |-> {},
                 multivalued_dependencies |-> {}]
        r1 == Relvar_add_each(self, fds, FunctionalDependency)
    IN IF r1.raised # "none" THEN r1
       ELSE Relvar_add_each(r1.self, mvds, MultivaluedDependency)

----------------------------------------------------------------------------
(* algorithms.py *)

\* variant: the dependant is added whether or not the determinant is covered
closure_body_IgnoreDeterminant(cs, ch, fd) ==
    LET new_attributes == fd.dependant \ cs
    IN IF new_attributes # {}
       THEN [closure_set |-> cs \cup new_attributes, changed |-> TRUE]
       ELSE [closure_set |-> cs, changed |-> ch]

\* variant: the new attributes replace the working set
closure_body_Assign(cs, ch, fd) ==
    IF fd.determinant \subseteq cs
    THEN LET new_attributes == fd.dependant \ cs
         IN IF new_attributes # {}
            THEN [closure_set |-> new_attributes, changed |-> TRUE]
            ELSE [closure_set |-> cs, changed |-> ch]
    ELSE [closure_set |-> cs, changed |-> ch]

\* the body of the for loop of closure, for one dependency fd
closure_body(cs, ch, fd) ==
    IF fd.determinant \subseteq cs
    THEN LET new_attributes == fd.dependant \ cs
         IN IF new_attributes # {}
            THEN [closure_set |-> cs \cup new_attributes, changed |-> TRUE]
            ELSE [closure_set |-> cs, changed |-> ch]
    ELSE [closure_set |-> cs, changed |-> ch]

RECURSIVE closure_for(_, _, _)
\* one for loop of closure over the dependencies rest
closure_for(cs, ch, rest) ==
    IF rest = {} THEN [closure_set |-> cs, changed |-> ch]
    ELSE LET fd == CHOOSE f \in rest : TRUE
             r == closure_body(cs, ch, fd)
         IN closure_for(r.closure_set, r.changed, rest \ {fd})

RECURSIVE closure_while(_, _, _)
\* the while loop of closure
closure_while(cs, ch, fds) ==
    IF ~ch THEN cs
    ELSE LET r == closure_for(cs, FALSE, fds)
         IN closure_while(r.closure_set, r.changed, fds)

closure(attrs, fds) == closure_while(attrs, TRUE, fds)

\* variant: issubset in place of issuperset
is_superkey_Subset(attrs, h, fds) == closure(attrs, fds) \subseteq h

is_superkey(attrs, h, fds) == h \subseteq closure(attrs, fds)

RECURSIVE is_key_for(_, _, _, _)
\* the for loop of is_key over the attributes rest
is_key_for(rest, attrs, h, fds) ==
    IF rest = {} THEN TRUE
    ELSE LET attr == CHOOSE a \in rest : TRUE
             reduced_set == attrs \ {attr}
         IN IF is_superkey(reduced_set, h, fds) THEN FALSE
            ELSE is_key_for(rest \ {attr}, attrs, h, fds)

\* variant: the superkey test before the loop is missing
is_key_NoSuperkeyTest(attrs, h, fds) == is_key_for(attrs, attrs, h, fds)

is_key(attrs, h, fds) ==
    IF ~is_superkey(attrs, h, fds) THEN FALSE
    ELSE is_key_for(attrs, attrs, h, fds)

RECURSIVE is_relvar_in_bcnf_for(_, _)
\* the for loop of is_relvar_in_bcnf over the dependencies rest
is_relvar_in_bcnf_for(rest, rv) ==
    IF rest = {} THEN TRUE
    ELSE LET fd == CHOOSE f \in rest : TRUE
         IN IF /\ ~FunctionalDependency_is_trivial(fd)
               /\ ~is_superkey(fd.determinant, rv.heading, rv.functional_dependencies)
            THEN FALSE
            ELSE is_relvar_in_bcnf_for(rest \ {fd}, rv)

is_relvar_in_bcnf(rv) == is_relvar_in_bcnf_for(rv.functional_dependencies, rv)

RECURSIVE is_relvar_in_4nf_for(_, _)
\* the for loop of is_relvar_in_4nf over the dependencies rest
is_relvar_in_4nf_for(rest, rv) ==
    IF rest = {} THEN TRUE
    ELSE LET mvd == CHOOSE m \in rest : TRUE
         IN IF /\ ~MultivaluedDependency_is_trivial(mvd, rv.heading)
               /\ ~is_superkey(mvd.determinant, rv.heading, rv.functional_dependencies)
            THEN FALSE
            ELSE is_relvar_in_4nf_for(rest \ {mvd}, rv)

is_relvar_in_4nf(rv) ==
    IF ~is_relvar_in_bcnf(rv) THEN FALSE
    ELSE is_relvar_in_4nf_for(rv.multivalued_dependencies, rv)

----------------------------------------------------------------------------
(* Constructor calls on generated expressions *)

Str(s) == [type |-> "str", value |-> s]

RECURSIVE str_join(_, _)
\* sep.join(list)
str_join(sep, list) ==
    IF Len(list) = 0 THEN <<>>
    ELSE IF Len(list) = 1 THEN list[1]
    ELSE list[1] \o sep \o str_join(sep, Tail(list))

SeqsUpTo(S, n) == UNION {[1..k -> S] : k \in 1..n}

LeftIdentifiers == {<<"A">>, <<"a", "Z">>, <<"B", "_">>, <<"^">>, <<"1">>, <<>>}
RightIdentifiers == {<<"C">>, <<"z", "[">>, <<>>}
Blanks == {<<>>, <<" ">>, <<"\t">>}
Arrows == {<<"-", ">">>, <<"-", ">", "-", ">">>, <<">">>}

Sides(ids, blank, n) ==
    LET lists == {str_join(<<",">> \o blank, l) : l \in SeqsUpTo(ids, n)}
    IN lists \cup {<<"{">> \o l \o <<"}">> : l \in lists}

\* expressions with at most n identifiers on a side
Expressions(n) ==
    UNION {{Str(l \o b \o a \o b \o r) :
                l \in Sides(LeftIdentifiers, b, n), a \in Arrows, r \in Sides(RightIdentifiers, b, n)}
           : b \in Blanks}

NonStrings == {[type |-> "NoneType", value |-> <<>>], [type |-> "int", value |-> 1],
               [type |-> "list", value |-> <<"{", "A", "}", "-", ">", "{", "C", "}">>]}

parseVars == <<expression, dependency>>
relvarVars == <<relvar>>
algVars == <<attributes, heading, functional_dependencies>>
closureVars == <<closure_set, changed, todo, pc, passes, pass_start, first>>

IdleParse == expression = None /\ dependency = None
IdleRelvar == relvar = None
IdleAlg == attributes = {} /\ heading = {} /\ functional_dependencies = {}
IdleClosure ==
    /\ closure_set = {}
    /\ changed = FALSE
    /\ todo = {}
    /\ pc = "idle"
    /\ passes = 0
    /\ pass_start = {}
    /\ first = None

InitParse ==
    /\ expression \in Expressions(MaxIds) \cup NonStrings
    /\ dependency = None
    /\ raised = "none"
    /\ call = None
    /\ IdleRelvar /\ IdleAlg /\ IdleClosure

\* dependency = cls(expression)
New(cls) ==
    LET r == Dependency__init__(cls, expression, 1)
    IN /\ call' = [op |-> cls]
       /\ raised' = r.raised
       /\ dependency' = IF r.raised = "none" THEN r.object ELSE dependency
       /\ UNCHANGED <<expression, relvarVars, algVars, closureVars>>

FunctionalDependency__init__ == New(FunctionalDependency)

MultivaluedDependency__init__ == New(MultivaluedDependency)

NextParse == FunctionalDependency__init__ \/ MultivaluedDependency__init__

SpecParse == InitParse /\ [][NextParse]_vars

----------------------------------------------------------------------------
(* A relvar built and extended from a pool of parsed dependencies *)

Names == {<<"A">>, <<"B">>, <<"C">>}
Headings == {<<<<"A">>, <<"B">>>>, <<<<"A">>, <<"B">>, <<"C">>>>}

RECURSIVE SetToSeq(_)
SetToSeq(S) ==
    IF S = {} THEN <<>>
    ELSE LET x == CHOOSE y \in S : TRUE IN <<x>> \o SetToSeq(S \ {x})

\* the text "{A, B} -> {C}" for determinant names X and dependant names Y
Render(X, Y, cls) ==
    <<"{">> \o str_join(<<",", " ">>, SetToSeq(X)) \o <<"}", " ">> \o _SEPARATOR(cls)
        \o <<" ", "{">> \o str_join(<<",", " ">>, SetToSeq(Y)) \o <<"}">>

SubsetsUpTo(S, n) == {X \in SUBSET S : X # {} /\ Cardinality(X) <= n}

\* the dependency objects the caller has constructed: copies objects for each
\* expression with a determinant of at most maxdet and a dependant of at most
\* maxdep attribute names
Pool(cls, maxdet, maxdep, copies) ==
    {Dependency__init__(cls, Str(Render(X, Y, cls)), n).object :
        X \in SubsetsUpTo(Names, maxdet), Y \in SubsetsUpTo(Names, maxdep), n \in 1..copies}

FDPool == Pool(FunctionalDependency, MaxDet, MaxDep, 1)
MVDPool == Pool(MultivaluedDependency, MaxDet, MaxDep, 1)
FDCopies == Pool(FunctionalDependency, MaxDet, MaxDep, MaxCopies)
MVDCopies == Pool(MultivaluedDependency, MaxDet, MaxDep, MaxCopies)
FDArgs == Pool(FunctionalDependency, MaxArgDet, MaxArgDep, 1)

Range(list) == {list[i] : i \in 1..Len(list)}

Lists(S, n) == UNION {[1..k -> S] : k \in 0..n}

Init ==
    /\ relvar = None
    /\ raised = "none"
    /\ call = None
    /\ IdleParse /\ IdleAlg /\ IdleClosure

\* relvar = Relvar(h, fds, mvds), the first statement of the caller
Call_Relvar(h, fds, mvds) ==
    /\ call = None
    /\ Len(fds) + Len(mvds) <= MaxDeps
    /\ LET r == Relvar__init__(h, fds, mvds)
       IN /\ call' = [op |-> "Relvar", heading |-> h,
                       dependencies |-> Range(fds) \cup Range(mvds)]
          /\ raised' = r.raised
          /\ relvar' = IF r.raised = "none" THEN r.self ELSE relvar
    /\ UNCHANGED <<parseVars, algVars, closureVars>>

Attached == relvar.functional_dependencies \cup relvar.multivalued_dependencies

\* relvar.add_functional_dependency(fd)
Call_add_functional_dependency(fd) ==
    /\ relvar # None
    /\ fd \in Attached \/ Cardinality(Attached) < MaxDeps
    /\ LET r == Relvar_add_functional_dependency(relvar, fd)
       IN /\ call' = [op |-> "add_functional_dependency", arg |-> fd]
          /\ raised' = r.raised
          /\ relvar' = r.self
    /\ UNCHANGED <<parseVars, algVars, closureVars>>

\* relvar.add_multivalued_dependency(mvd)
Call_add_multivalued_dependency(mvd) ==
    /\ relvar # None
    /\ mvd \in Attached \/ Cardinality(Attached) < MaxDeps
    /\ LET r == Relvar_add_multivalued_dependency(relvar, mvd)
       IN /\ call' = [op |-> "add_multivalued_dependency", arg |-> mvd]
          /\ raised' = r.raised
          /\ relvar' = r.self
    /\ UNCHANGED <<parseVars, algVars, closureVars>>

\* is_superkey(X, relvar.heading, relvar.functional_dependencies)
Call_is_superkey(X) ==
    /\ relvar # None
    /\ X \subseteq relvar.heading
    /\ call' = [op |-> "is_superkey", attributes |-> X,
                value |-> is_superkey(X, relvar.heading, relvar.functional_dependencies)]
    /\ raised' = "none"
    /\ UNCHANGED <<relvarVars, parseVars, algVars, closureVars>>

\* is_relvar_in_bcnf(relvar)
Call_is_relvar_in_bcnf ==
    /\ relvar # None
    /\ call' = [op |-> "is_relvar_in_bcnf", value |-> is_relvar_in_bcnf(relvar)]
    /\ raised' = "none"
    /\ UNCHANGED <<relvarVars, parseVars, algVars, closureVars>>

\* is_relvar_in_4nf(relvar)
Call_is_relvar_in_4nf ==
    /\ relvar # None
    /\ call' = [op |-> "is_relvar_in_4nf", value |-> is_relvar_in_4nf(relvar)]
    /\ raised' = "none"
    /\ UNCHANGED <<relvarVars, parseVars, algVars, closureVars>>

\* the constructor call, with dependencies drawn from the pools fdpool and mvdpool
Construct(fdpool, mvdpool) ==
    /\ call = None
    /\ \E h \in Headings, k \in 0..MaxDeps :
           \E fds \in [1..k -> fdpool], mvds \in Lists(mvdpool, MaxDeps - k) :
               Call_Relvar(h, fds, mvds)

Next ==
    \/ Construct(FDPool, MVDPool)
    \/ \E fd \in FDPool : Call_add_functional_dependency(fd)
    \/ \E mvd \in MVDPool : Call_add_multivalued_dependency(mvd)
    \/ Call_is_relvar_in_bcnf
    \/ Call_is_relvar_in_4nf

Spec == Init /\ [][Next]_vars

\* a relvar that is given functional dependencies only
NextFD ==
    \/ Construct(FDPool, {})
    \/ \E fd \in FDPool : Call_add_functional_dependency(fd)
    \/ \E X \in SUBSET {Attribute(n) : n \in Names} : Call_is_superkey(X)

SpecFD == Init /\ [][NextFD]_vars

\* a relvar that is offered several objects constructed from one expression
NextIdentity ==
    \/ Construct(FDCopies, MVDCopies)
    \/ \E fd \in FDCopies : Call_add_functional_dependency(fd)
    \/ \E mvd \in MVDCopies : Call_add_multivalued_dependency(mvd)

SpecIdentity == Init /\ [][NextIdentity]_vars

----------------------------------------------------------------------------
(* Properties of the relvar *)

Called(op) == call # None /\ call.op = op

AttributesOf(d) == d.determinant \cup d.dependant

\* C1: every attribute of every dependency held by the relvar belongs to its
\* heading; an add call whose dependency names an attribute outside the heading
\* raises InvalidDependency and stores nothing, and a constructor call given
\* such a dependency raises InvalidDependency and yields no relvar.
C1_DependenciesWithinHeading ==
    /\ relvar # None => \A d \in Attached : AttributesOf(d) \subseteq relvar.heading
    /\ \A op \in {"add_functional_dependency", "add_multivalued_dependency"} :
           (Called(op) /\ ~(AttributesOf(call.arg) \subseteq relvar.heading)) =>
               /\ raised = "InvalidDependency"
               /\ call.arg \notin Attached
    /\ (/\ Called("Relvar")
        /\ \E d \in call.dependencies :
               ~(AttributesOf(d) \subseteq {Attribute(n) : n \in Range(call.heading)}))
           => raised = "InvalidDependency" /\ relvar = None

C1_Witness ==
    /\ Called("add_multivalued_dependency")
    /\ raised = "InvalidDependency"
    /\ relvar.functional_dependencies # {}
    /\ ~(AttributesOf(call.arg) \subseteq relvar.heading)

SameValue(d1, d2) ==
    /\ d1.type = d2.type
    /\ d1.determinant = d2.determinant
    /\ d1.dependant = d2.dependant

\* C2: adding a dependency that has the kind, determinant and dependant of a
\* dependency the relvar already holds leaves the relvar's dependency set as
\* it was.
C2_AddIdempotentByValue ==
    [][/\ (/\ call'.op = "add_functional_dependency"
           /\ \E e \in relvar.functional_dependencies : SameValue(e, call'.arg))
          => relvar'.functional_dependencies = relvar.functional_dependencies
       /\ (/\ call'.op = "add_multivalued_dependency"
           /\ \E e \in relvar.multivalued_dependencies : SameValue(e, call'.arg))
          => relvar'.multivalued_dependencies = relvar.multivalued_dependencies]_vars

AddCalls == {"add_functional_dependency", "add_multivalued_dependency"}

\* C11: an add call that raises InvalidDependency leaves the relvar as it was
\* (heading and both dependency sets); every add call, raising or not, leaves
\* the heading and the dependency set of the other kind as they were.
C11_FailedAddLeavesRelvarUnchanged ==
    [][call'.op \in AddCalls =>
           /\ raised' = "InvalidDependency" => relvar' = relvar
           /\ relvar'.heading = relvar.heading
           /\ call'.op = "add_functional_dependency" =>
                  relvar'.multivalued_dependencies = relvar.multivalued_dependencies
           /\ call'.op = "add_multivalued_dependency" =>
                  relvar'.functional_dependencies = relvar.functional_dependencies]_vars

C11_Witness ==
    /\ Called("add_functional_dependency")
    /\ raised = "InvalidDependency"
    /\ call.arg \notin relvar.functional_dependencies
    /\ relvar.multivalued_dependencies # {}

\* X+ : the smallest superset of X closed under the dependencies fds
Closed(S, fds) == \A fd \in fds : fd.determinant \subseteq S => fd.dependant \subseteq S

Xplus(X, fds) ==
    LET U == X \cup UNION {AttributesOf(fd) : fd \in fds}
    IN CHOOSE S \in SUBSET U :
           /\ X \subseteq S
           /\ Closed(S, fds)
           /\ \A T \in SUBSET U : (X \subseteq T /\ Closed(T, fds)) => S \subseteq T

\* C5: is_relvar_in_bcnf returns True iff every functional dependency of the
\* relvar is trivial or has a determinant whose closure covers the heading;
\* in particular it returns True when the relvar has no functional dependency.
C5_BcnfIffEveryFdTrivialOrSuperkey ==
    Called("is_relvar_in_bcnf") =>
        /\ call.value =
               (\A fd \in relvar.functional_dependencies :
                    \/ fd.dependant \subseteq fd.determinant
                    \/ relvar.heading \subseteq Xplus(fd.determinant, relvar.functional_dependencies))
        /\ relvar.functional_dependencies = {} => call.value = TRUE

C5_Witness ==
    /\ Called("is_relvar_in_bcnf")
    /\ call.value = TRUE
    /\ Cardinality(relvar.heading) = 3
    /\ \E fd \in relvar.functional_dependencies : ~(fd.dependant \subseteq fd.determinant)
    /\ \E fd \in relvar.functional_dependencies : fd.dependant \subseteq fd.determinant

\* C6: is_relvar_in_4nf returns True iff is_relvar_in_bcnf does and every
\* multivalued dependency of the relvar is trivial with respect to the heading
\* (dependant within determinant, or determinant and dependant together make
\* up the heading) or has a superkey as determinant; so a True from
\* is_relvar_in_4nf implies a True from is_relvar_in_bcnf.
C6_4nfIffBcnfAndEveryMvdTrivialOrSuperkey ==
    Called("is_relvar_in_4nf") =>
        /\ call.value =
               (/\ is_relvar_in_bcnf(relvar)
                /\ \A mvd \in relvar.multivalued_dependencies :
                       \/ mvd.dependant \subseteq mvd.determinant
                       \/ mvd.determinant \cup mvd.dependant = relvar.heading
                       \/ relvar.heading \subseteq
                              Xplus(mvd.determinant, relvar.functional_dependencies))
        /\ call.value = TRUE => is_relvar_in_bcnf(relvar) = TRUE

C6_Witness ==
    /\ Called("is_relvar_in_4nf")
    /\ call.value = TRUE
    /\ relvar.functional_dependencies # {}
    /\ \E mvd \in relvar.multivalued_dependencies :
           /\ ~(mvd.dependant \subseteq mvd.determinant)
           /\ mvd.determinant \cup mvd.dependant # relvar.heading

\* C8: for a relvar built by the constructor and the add calls and a set X of
\* heading attributes, the closure of X under the relvar's functional
\* dependencies stays within the heading, so is_superkey returns True iff that
\* closure equals the heading.
C8_SuperkeyIffClosureEqualsHeading ==
    Called("is_superkey") =>
        /\ closure(call.attributes, relvar.functional_dependencies) \subseteq relvar.heading
        /\ call.value =
               (closure(call.attributes, relvar.functional_dependencies) = relvar.heading)

C8_Witness ==
    /\ Called("is_superkey")
    /\ call.value = TRUE
    /\ call.attributes # relvar.heading
    /\ Cardinality(relvar.functional_dependencies) = 2

----------------------------------------------------------------------------
(* One call of closure, statement by statement; the for loop visits the      *)
(* dependencies of the set in an order that is not determined.               *)

AllAttributes == {Attribute(n) : n \in Names}

\* sets of at most MaxFDs functional dependencies, one object per expression
DependencySets ==
    {Range(list) : list \in Lists(FDArgs, MaxFDs)}

InitClosure ==
    /\ attributes \in SUBSET AllAttributes
    /\ functional_dependencies \in DependencySets
    /\ heading = {}
    /\ closure_set = attributes
    /\ changed = TRUE
    /\ todo = {}
    /\ pc = "while"
    /\ passes = 0
    /\ pass_start = attributes
    /\ first = None
    /\ call = None
    /\ raised = "none"
    /\ IdleParse /\ IdleRelvar

\* while changed: changed = False; for fd in functional_dependencies: ...
closure_while_enter ==
    /\ pc = "while"
    /\ changed
    /\ changed' = FALSE
    /\ todo' = functional_dependencies
    /\ passes' = passes + 1
    /\ pass_start' = closure_set
    /\ pc' = "for"
    /\ UNCHANGED <<closure_set, first, call, raised, parseVars, relvarVars, algVars>>

\* one iteration of the for loop
closure_for_step(fd) ==
    /\ pc = "for"
    /\ fd \in todo
    /\ LET r == closure_body(closure_set, changed, fd)
       IN /\ closure_set' = r.closure_set
          /\ changed' = r.changed
    /\ todo' = todo \ {fd}
    /\ UNCHANGED <<pc, passes, pass_start, first, call, raised, parseVars, relvarVars, algVars>>

\* variant: the loop is left after the first for loop
closure_for_end_SinglePass ==
    /\ pc = "for"
    /\ todo = {}
    /\ pc' = "while"
    /\ changed' = FALSE
    /\ UNCHANGED <<closure_set, todo, passes, pass_start, first, call, raised,
                   parseVars, relvarVars, algVars>>

\* the for loop is exhausted
closure_for_end ==
    /\ pc = "for"
    /\ todo = {}
    /\ pc' = "while"
    /\ UNCHANGED <<closure_set, changed, todo, passes, pass_start, first, call, raised,
                   parseVars, relvarVars, algVars>>

\* return closure_set
closure_return ==
    /\ pc = "while"
    /\ ~changed
    /\ pc' = "done"
    /\ call' = [op |-> "closure", value |-> closure_set]
    /\ UNCHANGED <<closure_set, changed, todo, passes, pass_start, first, raised,
                   parseVars, relvarVars, algVars>>

\* closure(closure(attributes, fds), fds): the caller hands the returned set
\* to a second call
closure_again ==
    /\ pc = "done"
    /\ first = None
    /\ first' = [type |-> "call", attributes |-> attributes, value |-> call.value]
    /\ attributes' = call.value
    /\ closure_set' = call.value
    /\ changed' = TRUE
    /\ todo' = {}
    /\ passes' = 0
    /\ pass_start' = call.value
    /\ pc' = "while"
    /\ UNCHANGED <<call, raised, heading, functional_dependencies, parseVars, relvarVars>>

NextClosure ==
    \/ closure_while_enter
    \/ \E fd \in todo : closure_for_step(fd)
    \/ closure_for_end
    \/ closure_return
    \/ closure_again

SpecClosure == InitClosure /\ [][NextClosure]_vars

\* the interpreter runs the call to its end
SpecClosureFair == SpecClosure /\ WF_vars(NextClosure)

\* C3: whatever the order in which each for loop visits the dependencies,
\* closure returns X+, the smallest superset of the attributes that contains
\* the dependant of every dependency whose determinant it contains.
C3_ClosureIsLeastClosedSuperset ==
    pc = "done" =>
        /\ call.value = Xplus(attributes, functional_dependencies)
        /\ call.value = closure(attributes, functional_dependencies)

C3_Witness ==
    /\ pc = "done"
    /\ first = None
    /\ passes = 3
    /\ Cardinality(call.value) = Cardinality(attributes) + 2

\* C9: a second closure call on the set a first call returned returns that
\* same set.
C9_ClosureIdempotent ==
    (pc = "done" /\ first # None) => call.value = first.value

C9_Witness ==
    /\ pc = "done"
    /\ first # None
    /\ call.value = first.value
    /\ first.value # first.attributes
    /\ \E fd \in functional_dependencies : ~(fd.dependant \subseteq fd.determinant)
                                           /\ fd.dependant \subseteq first.value

DependencyAttributes == UNION {AttributesOf(fd) : fd \in functional_dependencies}

\* C10: the while loop of closure terminates; the working set never loses an
\* element, every for loop that is followed by another one has added an
\* attribute, and at most (number of attributes occurring in the
\* dependencies) + 1 for loops are run.
C10_ClosureTerminates ==
    /\ <>[](pc = "done")
    /\ [][closure_set \subseteq closure_set']_vars
    /\ []((pc = "while" /\ changed /\ passes >= 1) =>
              (pass_start \subseteq closure_set /\ pass_start # closure_set))
    /\ [](passes <= Cardinality(DependencyAttributes) + 1)

C10_Witness ==
    /\ pc = "done"
    /\ passes = 3
    /\ Cardinality(DependencyAttributes) = 3
    /\ closure_set # attributes

----------------------------------------------------------------------------
(* Calls of is_superkey and is_key on arbitrary arguments *)

InitAlg ==
    /\ attributes \in SUBSET AllAttributes
    /\ heading \in SUBSET AllAttributes
    /\ functional_dependencies \in DependencySets
    /\ call = None
    /\ raised = "none"
    /\ IdleParse /\ IdleRelvar /\ IdleClosure

\* is_superkey(attributes, heading, functional_dependencies)
Alg_is_superkey ==
    /\ call' = [op |-> "is_superkey",
                value |-> is_superkey(attributes, heading, functional_dependencies)]
    /\ UNCHANGED <<raised, parseVars, relvarVars, algVars, closureVars>>

\* is_key(attributes, heading, functional_dependencies)
Alg_is_key ==
    /\ call' = [op |-> "is_key",
                value |-> is_key(attributes, heading, functional_dependencies)]
    /\ UNCHANGED <<raised, parseVars, relvarVars, algVars, closureVars>>

NextAlg == Alg_is_superkey \/ Alg_is_key

SpecAlg == InitAlg /\ [][NextAlg]_vars

Superkey(K) == heading \subseteq Xplus(K, functional_dependencies)

\* C4: is_key returns True iff the attributes are a superkey of the heading
\* and no proper subset of them, of any size, is one; for the empty attribute
\* set is_key and is_superkey return the same value.
C4_KeyIffMinimalSuperkey ==
    Called("is_key") =>
        /\ call.value =
               (/\ Superkey(attributes)
                /\ \A S \in SUBSET attributes : S # attributes => ~Superkey(S))
        /\ attributes = {} =>
               call.value = is_superkey(attributes, heading, functional_dependencies)

C4_Witness ==
    /\ Called("is_key")
    /\ call.value = TRUE
    /\ Cardinality(attributes) = 2
    /\ Cardinality(heading) = 3

C4_WitnessEmpty ==
    /\ Called("is_key")
    /\ call.value = TRUE
    /\ attributes = {}

----------------------------------------------------------------------------
(* The notation of the dependency expressions *)

IsLetter(c) == (Ord[c] >= 65 /\ Ord[c] <= 90) \/ (Ord[c] >= 97 /\ Ord[c] <= 122)
IsWhitespace(c) == c \in {" ", "\t"}

\* a non-empty word of letters
IsIdentifier(w) == Len(w) >= 1 /\ \A i \in 1..Len(w) : IsLetter(w[i])

\* {ids} with ids a non-empty comma-separated list of identifiers
IsAttributeList(t) ==
    /\ Len(t) >= 2
    /\ Head(t) = "{"
    /\ t[Len(t)] = "}"
    /\ LET ids == str_split(SubSeq(t, 2, Len(t) - 1), <<",">>)
       IN \A i \in 1..Len(ids) : IsIdentifier(ids[i])

\* the expression has the form {ids} arrow {ids} once its whitespace is removed
WellFormed(cls, expr) ==
    /\ expr.type = "str"
    /\ LET sides == str_split(SelectSeq(expr.value, LAMBDA c : ~IsWhitespace(c)), _SEPARATOR(cls))
       IN /\ Len(sides) = 2
          /\ IsAttributeList(sides[1])
          /\ IsAttributeList(sides[2])

\* C7: a dependency constructor returns an object iff its argument is a string
\* of the form {ids}->{ids} (->-> for a multivalued dependency) after removal
\* of all whitespace, the identifiers being words of letters A-Z, a-z; in any
\* other case it raises InvalidExpression and no dependency is produced.
C7_ParseIffWellFormed ==
    \A cls \in {FunctionalDependency, MultivaluedDependency} :
        (call # None /\ call.op = cls) =>
            /\ (raised = "none") <=> WellFormed(cls, expression)
            /\ raised \in {"none", "InvalidExpression"}
            /\ (raised = "InvalidExpression") => dependency = None

====
